---- MODULE Spec2Model ----
(***************************************************************************)
(* A model of the maintenance scripts under tools/:                        *)
(*   extract-cpp.py           the Markdown code example extractor          *)
(*   update-docs-versions.py  the maintainer of versions.txt               *)
(*   update-version.py        the interactive version bump                 *)
(*                                                                         *)
(* Text is modelled by TLA+ strings, character for character, with one     *)
(* exception: a TLA+ string literal cannot hold the grave accent, so the   *)
(* model writes the grave accent of a Markdown fence as "~".               *)
(***************************************************************************)
EXTENDS Integers, Sequences, FiniteSets, TLC

VARIABLES
    script,             \* the script that is run
    \* extract-cpp.py
    pc,                 \* position in the __main__ block
    md_files,           \* sys.argv[2:]
    md_idx,             \* index in md_files of the document of the for loop
    state,              \* local of extract_cpp_from_md_file
    cpp_text,           \* local of extract_cpp_from_md_file
    lines_read,         \* number of lines the file iterators of the run have yielded
    cpp_file_num,       \* CppExamples._cpp_file_num
    cpp_example_num,    \* CppExamples._cpp_example_num
    cpp_examples_text,  \* CppExamples._cpp_examples_text
    files,              \* the output directory: path -> text
    error,              \* the place that raised the uncaught I/O error, or ""
    cur,                \* the lines of the document read since its last open fence
    closed,             \* the regions closed so far, in order
    unclosed,           \* the documents that ended inside a region
    \* update-docs-versions.py
    versions_exists,    \* os.path.exists(versions_path)
    versions_txt,       \* the text of versions.txt
    git_ref,            \* sys.argv[2] of the last run
    v_error,            \* the exception that ended the last run, or ""
    v_runs,             \* number of runs of the script so far
    called,             \* directory -> the versions update_ver was called with, in order
    \* update-version.py
    uv_pc,              \* position in main()
    header_txt,         \* the text of include/upa/url_version.h
    readme_txt,         \* the text of README.md
    version,            \* the dict of main(): <<key, value>> pairs in insertion order
    ind,                \* the answer to "Which version number to increment?"
    answer,             \* the answer to "Update files with new version?"
    uv_error,           \* the exception that ended main(), or ""
    files_written,      \* the files write_to_file has written, in order
    numbers0            \* the version numbers the header was made with

extract_vars == <<pc, md_files, md_idx, state, cpp_text, lines_read, cpp_file_num,
                  cpp_example_num, cpp_examples_text, files, error, cur, closed,
                  unclosed>>

versions_vars == <<versions_exists, versions_txt, git_ref, v_error, v_runs, called>>

update_vars == <<uv_pc, header_txt, readme_txt, version, ind, answer, uv_error,
                 files_written, numbers0>>

vars == <<script, extract_vars, versions_vars, update_vars>>

---------------------------------------------------------------------------
(* Bounds *)
\* the lines of all the documents of a run together
MaxLines == 6
MaxRuns == 3
MaxNumber == 1

---------------------------------------------------------------------------
(* Python's str operations, on TLA+ strings *)

Char(s, i) == SubSeq(s, i, i)

\* the characters str.isspace() holds for, which str.rstrip() strips: space, \t,
\* \n, \r, \f, and, written as the characters themselves, U+000B, U+001C to U+001F,
\* U+0085, U+00A0 and U+1680 (the parser accepts none of the other spaces of
\* Unicode, U+2000 to U+200A, U+2028, U+2029, U+202F, U+205F and U+3000, in a string)
WhiteSpace ==
    {" ", "\t", "\n", "\r", "\f", "", "", "", "", "", "", " ",
     " "}

RECURSIVE RStrip(_)
RStrip(s) ==
    IF Len(s) > 0 /\ Char(s, Len(s)) \in WhiteSpace
    THEN RStrip(SubSeq(s, 1, Len(s) - 1))
    ELSE s

StartsWith(s, p) == Len(s) >= Len(p) /\ SubSeq(s, 1, Len(p)) = p

\* p in s
Contains(s, p) == \E i \in 1..(Len(s) - Len(p) + 1) : SubSeq(s, i, i + Len(p) - 1) = p

\* the places where p occurs in s
Occurrences(s, p) == {i \in 1..(Len(s) - Len(p) + 1) : SubSeq(s, i, i + Len(p) - 1) = p}

Digits == "0123456789"

\* str(n) of an int n >= 0
RECURSIVE Str(_)
Str(n) ==
    IF n < 10
    THEN Char(Digits, n + 1)
    ELSE Str(n \div 10) \o Char(Digits, (n % 10) + 1)

\* "".join(seq)
RECURSIVE Concat(_)
Concat(seq) == IF seq = <<>> THEN "" ELSE Head(seq) \o Concat(Tail(seq))

---------------------------------------------------------------------------
(* extract-cpp.py *)

INDENT_TEXT == "    "
COMMON_CPP_HEADER == "\n#include \"upa/url.h\"\n#include <iostream>\n#include <string>\n"
FENCE_OPEN == "~~~cpp"
FENCE_CLOSE == "~~~"

\* sys.argv[1]
out_path == "out"

\* the lines a document is made of
Lines ==
    {"~~~cpp\n", "~~~\n", "#include <a>\n", "#include <b> // int main()\n", "f();\n"}

DocPath(i) == "doc" \o Str(i) \o ".md"

\* sys.argv[2:]: no document, one document, two documents
MdFileLists == {<<>>, <<DocPath(1)>>, <<DocPath(1), DocPath(2)>>}

\* os.path.join of a directory without a trailing separator and a file name
path_join(dir, name) == dir \o "/" \o name

\* has_main without its test: every Standalone region is taken to have an entry point
has_main_always(text) == TRUE

has_main(text) == Contains(text, "int main(")

\* example_file_name with the name formatted before the counter is increased
example_file_name_before_increment(num) == "example-" \o Str(num - 1) \o ".cpp"

example_file_name(num) == "example-" \o Str(num) \o ".cpp"

common_file_name == "examples.cpp"

\* what the two out_file.write calls put in example-N.cpp
example_file_text(md_path, text) == "// Example from: " \o md_path \o "\n" \o text

\* what closing a fragment appends to _cpp_examples_text
example_function_text(md_path, num, text) ==
    "\n// Example from: " \o md_path \o "\n"
    \o "void example_" \o Str(num) \o "() {\n"
    \o text
    \o "}\n"

example_call_text(num) == INDENT_TEXT \o "example_" \o Str(num) \o "();\n"

\* for num in range(first, last + 1): text += call
RECURSIVE example_calls(_, _)
example_calls(first, last) ==
    IF first > last THEN "" ELSE example_call_text(first) \o example_calls(first + 1, last)

\* main_text with range(1, n): the last function is not called
main_text_short_range(n) ==
    "\nint main() {\n" \o example_calls(1, n - 1) \o INDENT_TEXT \o "return 0;\n" \o "}\n"

\* what output_common_cpp appends to _cpp_examples_text
main_text(n) ==
    "\nint main() {\n" \o example_calls(1, n) \o INDENT_TEXT \o "return 0;\n" \o "}\n"

\* should_output_common with >= for >
should_output_common_always(n) == n >= 0

should_output_common(n) == n > 0

\* the locals of extract_cpp_from_md_file outside a call of it: state is bound to
\* no value, and the model holds cpp_text as ""
Unbound == "unbound"

\* state_at_open without the assignment: the state is what it was before the call
state_at_open_kept(prev) == prev

\* the state and buffer a document starts with, whatever the last one left
state_at_open(prev) == "Outside"
cpp_text_at_open(prev) == ""

\* state_on_line without the test of EnterCpp: every line classifies again
state_on_line_every_line(st, line) ==
    IF StartsWith(line, "#include") THEN "InCpp" ELSE "InCppSnipet"

\* the state after a line that is neither a fence while Outside nor a close fence
state_on_line(st, line) ==
    IF st = "EnterCpp"
    THEN IF StartsWith(line, "#include") THEN "InCpp" ELSE "InCppSnipet"
    ELSE st

\* the buffer after such a line
cpp_text_on_line(st, text, line_nl) ==
    IF st = "InCppSnipet" THEN text \o INDENT_TEXT \o line_nl ELSE text \o line_nl

\* uncaught_pc with the error caught around the call: the loop goes on
uncaught_pc_caught == "for_md"

\* an I/O error is caught nowhere: it ends the run
uncaught_pc == "aborted"

\* the write that raises nothing
Written == [kind |-> "ok", kept |-> 0]

\* open(path, "w") followed by the write calls and the close of the with block:
\* everything is written, or open raises and leaves the directory as it is, or a
\* write or the close raises and leaves the file with the first kept characters of
\* the text, any number of them from none to all
WriteOutcomes(text) ==
    {Written, [kind |-> "open_raises", kept |-> 0]}
    \cup {[kind |-> "write_raises", kept |-> k] : k \in 0..Len(text)}

write_file(fs, path, text, outcome) ==
    CASE outcome.kind = "ok" -> (path :> text) @@ fs
      [] outcome.kind = "open_raises" -> fs
      [] outcome.kind = "write_raises" -> (path :> SubSeq(text, 1, outcome.kept)) @@ fs

\* the other scripts are not run
UpdateIdle ==
    /\ uv_pc = "main"
    /\ header_txt = ""
    /\ readme_txt = ""
    /\ version = <<>>
    /\ ind = ""
    /\ answer = ""
    /\ uv_error = ""
    /\ files_written = <<>>
    /\ numbers0 = <<>>

VersionsIdle ==
    /\ versions_exists = FALSE
    /\ versions_txt = ""
    /\ git_ref = ""
    /\ v_error = ""
    /\ v_runs = 0
    /\ called = <<>>

ExtractInit ==
    /\ script = "extract-cpp.py"
    /\ pc = "main"
    /\ md_files \in MdFileLists
    /\ md_idx = 1
    /\ state = Unbound
    /\ cpp_text = ""
    /\ lines_read = 0
    /\ cpp_file_num = 0
    /\ cpp_example_num = 0
    /\ cpp_examples_text = COMMON_CPP_HEADER
    /\ files = <<>>
    /\ error = ""
    /\ cur = [open |-> FALSE, lines |-> <<>>]
    /\ closed = <<>>
    /\ unclosed = {}
    /\ VersionsIdle
    /\ UpdateIdle

\* len(sys.argv) < 3: the usage message and exit code 1
Usage ==
    /\ script = "extract-cpp.py"
    /\ pc = "main"
    /\ Len(md_files) = 0
    /\ pc' = "exit1"
    /\ UNCHANGED <<md_files, md_idx, state, cpp_text, lines_read, cpp_file_num,
                   cpp_example_num, cpp_examples_text, files, error, cur, closed,
                   unclosed>>
    /\ UNCHANGED <<script, versions_vars, update_vars>>

\* cpp_examples = CppExamples(out_path)
Construct ==
    /\ script = "extract-cpp.py"
    /\ pc = "main"
    /\ Len(md_files) >= 1
    /\ pc' = "for_md"
    /\ md_idx' = 1
    /\ cpp_file_num' = 0
    /\ cpp_example_num' = 0
    /\ cpp_examples_text' = COMMON_CPP_HEADER
    /\ UNCHANGED <<md_files, state, cpp_text, lines_read, files, error, cur, closed,
                   unclosed>>
    /\ UNCHANGED <<script, versions_vars, update_vars>>

\* extract_cpp_from_md_file(md_path) up to the open of the document
OpenDocument ==
    /\ script = "extract-cpp.py"
    /\ pc = "for_md"
    /\ md_idx <= Len(md_files)
    /\ state' = state_at_open(state)
    /\ cpp_text' = cpp_text_at_open(cpp_text)
    /\ cur' = [open |-> FALSE, lines |-> <<>>]
    /\ \/ pc' = "scan" /\ error' = error
       \/ pc' = uncaught_pc /\ error' = "open_md"
    /\ UNCHANGED <<md_files, md_idx, lines_read, cpp_file_num, cpp_example_num,
                   cpp_examples_text, files, closed, unclosed>>
    /\ UNCHANGED <<script, versions_vars, update_vars>>

\* the document's lines as the regions of the data model see them: a region is
\* the run of lines between an open fence and the next close fence
cur_on_line(c, line_nl) ==
    IF ~c.open
    THEN IF RStrip(line_nl) = FENCE_OPEN THEN [open |-> TRUE, lines |-> <<>>] ELSE c
    ELSE IF RStrip(line_nl) = FENCE_CLOSE THEN [open |-> FALSE, lines |-> <<>>]
    ELSE [open |-> TRUE, lines |-> Append(c.lines, line_nl)]

\* the body of "for line_nl in file": the locals, the object and the output
\* directory after it, and the place that raised, if any
scan_line(s, md_path, line_nl, outcome) ==
    LET line == RStrip(line_nl)
        quiet == [state |-> s.state, cpp_text |-> s.cpp_text,
                  cpp_file_num |-> s.cpp_file_num, cpp_example_num |-> s.cpp_example_num,
                  cpp_examples_text |-> s.cpp_examples_text, files |-> s.files,
                  raises |-> ""]
    IN
    IF s.state = "Outside" THEN
        IF line = FENCE_OPEN
        THEN [quiet EXCEPT !.state = "EnterCpp", !.cpp_text = ""]
        ELSE quiet
    ELSE IF line = FENCE_CLOSE THEN
        IF s.state = "InCpp" THEN
            IF has_main(s.cpp_text)
            THEN LET num == s.cpp_file_num + 1
                     out_file_path == path_join(out_path, example_file_name(num))
                     written == write_file(s.files, out_file_path,
                                           example_file_text(md_path, s.cpp_text), outcome)
                 IN IF outcome.kind = "ok"
                    THEN [quiet EXCEPT !.cpp_file_num = num, !.files = written,
                                       !.state = "Outside"]
                    ELSE [quiet EXCEPT !.cpp_file_num = num, !.files = written,
                                       !.raises = "write_example"]
            ELSE [quiet EXCEPT !.state = "Outside"]
        ELSE IF s.state = "InCppSnipet" THEN
            [quiet EXCEPT !.cpp_example_num = s.cpp_example_num + 1,
                          !.cpp_examples_text = s.cpp_examples_text
                              \o example_function_text(md_path, s.cpp_example_num + 1,
                                                       s.cpp_text),
                          !.state = "Outside"]
        ELSE [quiet EXCEPT !.state = "Outside"]
    ELSE
        [quiet EXCEPT !.state = state_on_line(s.state, line),
                      !.cpp_text = cpp_text_on_line(state_on_line(s.state, line),
                                                    s.cpp_text, line_nl)]

\* what the write of the line, if the line makes one, can come to
scan_outcomes(s, md_path, line_nl) ==
    IF s.state = "InCpp" /\ RStrip(line_nl) = FENCE_CLOSE /\ has_main(s.cpp_text)
    THEN WriteOutcomes(example_file_text(md_path, s.cpp_text))
    ELSE {Written}

\* the locals, the object and the output directory, as scan_line takes them
scan_state ==
    [state |-> state, cpp_text |-> cpp_text, cpp_file_num |-> cpp_file_num,
     cpp_example_num |-> cpp_example_num, cpp_examples_text |-> cpp_examples_text,
     files |-> files]

\* one iteration of "for line_nl in file"
ScanLine ==
    /\ script = "extract-cpp.py"
    /\ pc = "scan"
    /\ lines_read < MaxLines
    /\ \E line_nl \in Lines :
      \E outcome \in scan_outcomes(scan_state, md_files[md_idx], line_nl) :
      \E r \in {scan_line(scan_state, md_files[md_idx], line_nl, outcome)} :
        /\ lines_read' = lines_read + 1
        /\ cur' = cur_on_line(cur, line_nl)
        /\ closed' = IF cur.open /\ ~cur_on_line(cur, line_nl).open
                     THEN Append(closed, [path |-> md_files[md_idx], lines |-> cur.lines,
                                          branch |-> state])
                     ELSE closed
        /\ state' = r.state
        /\ cpp_text' = r.cpp_text
        /\ cpp_file_num' = r.cpp_file_num
        /\ cpp_example_num' = r.cpp_example_num
        /\ cpp_examples_text' = r.cpp_examples_text
        /\ files' = r.files
        /\ IF r.raises = ""
           THEN UNCHANGED <<pc, error>>
           ELSE pc' = uncaught_pc /\ error' = r.raises
    /\ UNCHANGED <<md_files, md_idx, unclosed>>
    /\ UNCHANGED <<script, versions_vars, update_vars>>

\* reading the document raises
ReadRaises ==
    /\ script = "extract-cpp.py"
    /\ pc = "scan"
    /\ pc' = uncaught_pc
    /\ error' = "read_md"
    /\ UNCHANGED <<md_files, md_idx, state, cpp_text, lines_read, cpp_file_num,
                   cpp_example_num, cpp_examples_text, files, cur, closed, unclosed>>
    /\ UNCHANGED <<script, versions_vars, update_vars>>

\* the file iterator is exhausted: extract_cpp_from_md_file returns, and its
\* locals and the file object are gone
EndOfDocument ==
    /\ script = "extract-cpp.py"
    /\ pc = "scan"
    /\ pc' = "for_md"
    /\ md_idx' = md_idx + 1
    /\ state' = Unbound
    /\ cpp_text' = ""
    /\ cur' = [open |-> FALSE, lines |-> <<>>]
    /\ unclosed' = IF cur.open THEN unclosed \cup {md_idx} ELSE unclosed
    /\ UNCHANGED <<md_files, lines_read, cpp_file_num, cpp_example_num, cpp_examples_text, files,
                   error, closed>>
    /\ UNCHANGED <<script, versions_vars, update_vars>>

\* output_common_cpp(): the aggregate buffer and the output directory after it,
\* and the place that raised, if any
output_common_cpp(text, num, fs, outcome) ==
    IF should_output_common(num)
    THEN [cpp_examples_text |-> text \o main_text(num),
          files |-> write_file(fs, path_join(out_path, common_file_name),
                               text \o main_text(num), outcome),
          raises |-> IF outcome.kind = "ok" THEN "" ELSE "write_common"]
    ELSE [cpp_examples_text |-> text, files |-> fs, raises |-> ""]

\* what the write of examples.cpp, if there is one, can come to
common_outcomes(text, num) ==
    IF should_output_common(num) THEN WriteOutcomes(text \o main_text(num)) ELSE {Written}

\* cpp_examples.output_common_cpp()
OutputCommon ==
    /\ script = "extract-cpp.py"
    /\ pc = "for_md"
    /\ md_idx > Len(md_files)
    /\ \E outcome \in common_outcomes(cpp_examples_text, cpp_example_num) :
      \E r \in {output_common_cpp(cpp_examples_text, cpp_example_num, files, outcome)} :
        /\ cpp_examples_text' = r.cpp_examples_text
        /\ files' = r.files
        /\ error' = r.raises
        /\ pc' = IF r.raises = "" THEN "done" ELSE uncaught_pc
    /\ UNCHANGED <<md_files, md_idx, state, cpp_text, lines_read, cpp_file_num,
                   cpp_example_num, cur, closed, unclosed>>
    /\ UNCHANGED <<script, versions_vars, update_vars>>

ExtractNext ==
    \/ Usage
    \/ Construct
    \/ OpenDocument
    \/ ScanLine
    \/ ReadRaises
    \/ EndOfDocument
    \/ OutputCommon

ExtractSpec == ExtractInit /\ [][ExtractNext]_vars

---------------------------------------------------------------------------
(* More of Python's str and int *)

\* the first place where p occurs in s
Find(s, p) == CHOOSE i \in Occurrences(s, p) : \A j \in Occurrences(s, p) : i <= j

\* s.split(sep)
RECURSIVE Split(_, _)
Split(s, sep) ==
    IF ~Contains(s, sep)
    THEN <<s>>
    ELSE <<SubSeq(s, 1, Find(s, sep) - 1)>>
         \o Split(SubSeq(s, Find(s, sep) + Len(sep), Len(s)), sep)

\* sep.join(seq)
RECURSIVE Join(_, _)
Join(seq, sep) ==
    IF seq = <<>> THEN ""
    ELSE IF Len(seq) = 1 THEN seq[1]
    ELSE seq[1] \o sep \o Join(Tail(seq), sep)

\* seq[:n]
Take(seq, n) == SubSeq(seq, 1, IF n < Len(seq) THEN n ELSE Len(seq))

\* the line boundaries of str.splitlines(): \n, \r, \f, and, written as the
\* characters themselves, U+000B, U+001C to U+001E and U+0085 (U+2028 and U+2029
\* cannot be written in a string here)
LineBreaks == {"\n", "\r", "\f", "", "", "", "", ""}

\* the first line boundary of text, or 0
FirstBreak(text) ==
    LET at == {i \in 1..Len(text) : Char(text, i) \in LineBreaks}
    IN IF at = {} THEN 0 ELSE CHOOSE i \in at : \A j \in at : i <= j

\* text.splitlines(): "\r\n" is one boundary
RECURSIVE SplitLines(_)
SplitLines(text) ==
    IF text = "" THEN <<>>
    ELSE LET i == FirstBreak(text)
             next == IF i < Len(text) /\ SubSeq(text, i, i + 1) = "\r\n" THEN i + 2 ELSE i + 1
         IN IF i = 0 THEN <<text>>
            ELSE <<SubSeq(text, 1, i - 1)>> \o SplitLines(SubSeq(text, next, Len(text)))

DigitChars == {Char(Digits, k) : k \in 1..10}

\* [0-9]+ matches all of s
IsDigits(s) == Len(s) >= 1 /\ \A i \in 1..Len(s) : Char(s, i) \in DigitChars

\* the decimal digits int() reads: the ASCII digits and, written as the characters
\* themselves, the digits of the eighteen other scripts that the parser accepts
\* in a string (it accepts no digit of the remaining scripts)
DecimalRows == <<Digits,
    "۰۱۲۳۴۵۶۷۸۹",
    "߀߁߂߃߄߅߆߇߈߉",
    "০১২৩৪৫৬৭৮৯",
    "૦૧૨૩૪૫૬૭૮૯",
    "௦௧௨௩௪௫௬௭௮௯",
    "೦೧೨೩೪೫೬೭೮೯",
    "෦෧෨෩෪෫෬෭෮෯",
    "໐໑໒໓໔໕໖໗໘໙",
    "႐႑႒႓႔႕႖႗႘႙",
    "០១២៣៤៥៦៧៨៩",
    "᧐᧑᧒᧓᧔᧕᧖᧗᧘᧙",
    "᪀᪁᪂᪃᪄᪅᪆᪇᪈᪉",
    "᪐᪑᪒᪓᪔᪕᪖᪗᪘᪙",
    "᮰᮱᮲᮳᮴᮵᮶᮷᮸᮹",
    "꣐꣑꣒꣓꣔꣕꣖꣗꣘꣙",
    "꧐꧑꧒꧓꧔꧕꧖꧗꧘꧙",
    "꧰꧱꧲꧳꧴꧵꧶꧷꧸꧹",
    "꯰꯱꯲꯳꯴꯵꯶꯷꯸꯹">>

DecimalChars == {Char(DecimalRows[r], k) : r \in 1..Len(DecimalRows), k \in 1..10}

\* the value of a decimal digit
DigitValue(c) ==
    (CHOOSE k \in 1..10 : \E r \in 1..Len(DecimalRows) : Char(DecimalRows[r], k) = c) - 1

RECURSIVE DigitsValue(_)
DigitsValue(s) ==
    IF Len(s) = 1 THEN DigitValue(s)
    ELSE 10 * DigitsValue(SubSeq(s, 1, Len(s) - 1)) + DigitValue(Char(s, Len(s)))

\* the white space int() skips around the number: of the ASCII characters the six
\* of C's isspace(), of the others every one str.isspace() holds for (U+0085,
\* U+00A0, U+1680); U+001C to U+001F are ASCII and are not skipped
IntSpace == WhiteSpace \ {"", "", "", ""}

RECURSIVE SkipLeft(_)
SkipLeft(s) ==
    IF Len(s) > 0 /\ Char(s, 1) \in IntSpace THEN SkipLeft(SubSeq(s, 2, Len(s))) ELSE s

RECURSIVE SkipRight(_)
SkipRight(s) ==
    IF Len(s) > 0 /\ Char(s, Len(s)) \in IntSpace
    THEN SkipRight(SubSeq(s, 1, Len(s) - 1))
    ELSE s

\* the digits of an int literal: decimal digits, with single "_" between digits
IsIntDigits(d) ==
    /\ Len(d) >= 1
    /\ \A i \in 1..Len(d) : Char(d, i) \in DecimalChars \cup {"_"}
    /\ Char(d, 1) # "_" /\ Char(d, Len(d)) # "_"
    /\ ~Contains(d, "__")

\* int(s): white space around, a sign, digits; anything else raises ValueError
PyInt(s) ==
    LET t == SkipLeft(SkipRight(s))
        signed == Len(t) >= 1 /\ Char(t, 1) \in {"+", "-"}
        d == IF signed THEN SubSeq(t, 2, Len(t)) ELSE t
        n == IF IsIntDigits(d) THEN DigitsValue(Join(Split(d, "_"), "")) ELSE 0
    IN IF IsIntDigits(d)
       THEN [raises |-> "", val |-> IF signed /\ Char(t, 1) = "-" THEN 0 - n ELSE n]
       ELSE [raises |-> "ValueError", val |-> 0]

---------------------------------------------------------------------------
(* update-docs-versions.py *)

\* re.match(version_regex, version): v, digits, then one or more of a dot and
\* digits; "$" also matches before a last "\n"
matches_version_regex(text) ==
    LET t == IF Len(text) >= 1 /\ Char(text, Len(text)) = "\n"
             THEN SubSeq(text, 1, Len(text) - 1) ELSE text
        pieces == Split(SubSeq(t, 2, Len(t)), ".")
    IN /\ Len(t) >= 1
       /\ Char(t, 1) = "v"
       /\ Len(pieces) >= 2
       /\ \A i \in 1..Len(pieces) : IsDigits(pieces[i])

\* the sort key: 0, or 1 / div as the fraction num / den, or the exception raised.
\* The float 1 / div is the fraction rounded; rounding keeps the order, and keeps
\* distinct div apart as long as div < 2^53.
key_of_dir_ver(dir_ver) ==
    LET dir0 == Split(dir_ver, ":")[1]
        dir == IF StartsWith(dir0, "v") THEN SubSeq(dir0, 2, Len(dir0)) ELSE dir0
        pieces == Split(dir, ".")
        p1 == PyInt(pieces[1])
        p2 == IF Len(pieces) > 1 THEN PyInt(pieces[2]) ELSE [raises |-> "", val |-> 0]
        p3 == IF Len(pieces) > 2 THEN PyInt(pieces[3]) ELSE [raises |-> "", val |-> 0]
        div == 1000000 * p1.val + 1000 * p2.val + p3.val
    IN IF dir0 = "main" THEN [raises |-> "", num |-> 0, den |-> 1]
       ELSE IF p1.raises # "" THEN [raises |-> p1.raises, num |-> 0, den |-> 1]
       ELSE IF p2.raises # "" THEN [raises |-> p2.raises, num |-> 0, den |-> 1]
       ELSE IF p3.raises # "" THEN [raises |-> p3.raises, num |-> 0, den |-> 1]
       ELSE IF div = 0 THEN [raises |-> "ZeroDivisionError", num |-> 0, den |-> 1]
       ELSE IF div < 0 THEN [raises |-> "", num |-> 0 - 1, den |-> 0 - div]
       ELSE [raises |-> "", num |-> 1, den |-> div]

\* k1 < k2, for two keys that did not raise
key_less(k1, k2) == k1.num * k2.den < k2.num * k1.den

\* list.sort(key=key_of_dir_ver) is stable: an element goes after the elements of
\* a key not greater than its own
RECURSIVE sorted_insert(_, _)
sorted_insert(sorted, x) ==
    IF sorted = <<>> THEN <<x>>
    ELSE IF key_less(key_of_dir_ver(x), key_of_dir_ver(sorted[Len(sorted)]))
    THEN Append(sorted_insert(SubSeq(sorted, 1, Len(sorted) - 1), x), sorted[Len(sorted)])
    ELSE Append(sorted, x)

RECURSIVE sort_lines(_)
sort_lines(lines) ==
    IF lines = <<>> THEN <<>>
    ELSE sorted_insert(sort_lines(SubSeq(lines, 1, Len(lines) - 1)), lines[Len(lines)])

\* the exception of the first key that raises, or ""
sort_raises(lines) ==
    IF \E i \in 1..Len(lines) : key_of_dir_ver(lines[i]).raises # ""
    THEN key_of_dir_ver(lines[CHOOSE i \in 1..Len(lines) :
                                 /\ key_of_dir_ver(lines[i]).raises # ""
                                 /\ \A j \in 1..(i - 1) : key_of_dir_ver(lines[j]).raises = ""]
                        ).raises
    ELSE ""

\* the test of the loop of update_ver
\* (line_is_whole_dir_ver: the whole line compared, not its directory)
line_is_whole_dir_ver(line, dir) == line = dir
line_has_dir(line, dir) == Split(line, ":")[1] = dir

\* the lines of update_ver before the sort
replace_or_append(lines, dir, dir_ver) ==
    IF \E i \in 1..Len(lines) : line_has_dir(lines[i], dir)
    THEN LET i == CHOOSE i \in 1..Len(lines) :
                     /\ line_has_dir(lines[i], dir)
                     /\ \A j \in 1..(i - 1) : ~line_has_dir(lines[j], dir)
         IN [lines EXCEPT ![i] = dir_ver]
    ELSE Append(lines, dir_ver)

dir_ver_of(dir, ver) == IF dir = ver THEN dir ELSE dir \o ":" \o ver

\* update_ver(versions_path, dir, ver): the file after it and the exception raised
update_ver(exists, text, dir, ver) ==
    LET lines0 == IF exists THEN SplitLines(text) ELSE <<>>
        lines == replace_or_append(lines0, dir, dir_ver_of(dir, ver))
    IN IF sort_raises(lines) # ""
       THEN [exists |-> exists, text |-> text, raises |-> sort_raises(lines)]
       ELSE [exists |-> TRUE,
             text |-> Concat([i \in 1..Len(lines) |-> sort_lines(lines)[i] \o "\n"]),
             raises |-> ""]

\* what main(versions_folder, git_ref) calls update_ver with, or no call
update_ver_args(ref) ==
    IF StartsWith(ref, "refs/heads/")
    THEN LET branch == SubSeq(ref, 12, Len(ref))
         IN IF branch = "main"
            THEN [call |-> TRUE, dir |-> branch, ver |-> branch]
            ELSE [call |-> FALSE, dir |-> "", ver |-> ""]
    ELSE IF StartsWith(ref, "refs/tags/")
    THEN LET tag == SubSeq(ref, 11, Len(ref))
             version_pieces == Split(tag, ".")
         IN IF matches_version_regex(tag)
            THEN [call |-> TRUE, dir |-> Join(Take(version_pieces, 2), "."),
                  ver |-> Join(version_pieces, ".")]
            ELSE [call |-> FALSE, dir |-> "", ver |-> ""]
    ELSE [call |-> FALSE, dir |-> "", ver |-> ""]

\* the git refs the script is run with, each with the directory and the version it
\* stands for ("" when it names neither the main branch nor a version tag)
RefTable == {
    [ref |-> "refs/heads/main",      dir |-> "main",    ver |-> "main"],
    [ref |-> "refs/heads/dev",       dir |-> "",        ver |-> ""],
    [ref |-> "refs/tags/v1.2.3",     dir |-> "v1.2",    ver |-> "v1.2.3"],
    [ref |-> "refs/tags/v1.2.4",     dir |-> "v1.2",    ver |-> "v1.2.4"],
    [ref |-> "refs/tags/v1.10.0",    dir |-> "v1.10",   ver |-> "v1.10.0"],
    [ref |-> "refs/tags/v2.0",       dir |-> "v2.0",    ver |-> "v2.0"],
    [ref |-> "refs/tags/v0.0.1",     dir |-> "v0.0",    ver |-> "v0.0.1"],
    [ref |-> "refs/tags/v1.1000.0",  dir |-> "v1.1000", ver |-> "v1.1000.0"],
    [ref |-> "refs/tags/v3",         dir |-> "",        ver |-> ""],
    [ref |-> "refs/tags/latest",     dir |-> "",        ver |-> ""],
    [ref |-> "refs/pull/7/merge",    dir |-> "",        ver |-> ""]}

Refs == {r.ref : r \in RefTable}
RefEntry(ref) == CHOOSE r \in RefTable : r.ref = ref

ExtractIdle ==
    /\ pc = "main"
    /\ md_files = <<>>
    /\ md_idx = 1
    /\ state = Unbound
    /\ cpp_text = ""
    /\ lines_read = 0
    /\ cpp_file_num = 0
    /\ cpp_example_num = 0
    /\ cpp_examples_text = ""
    /\ files = <<>>
    /\ error = ""
    /\ cur = [open |-> FALSE, lines |-> <<>>]
    /\ closed = <<>>
    /\ unclosed = {}

\* versions.txt is missing or empty
VersionsInit ==
    /\ script = "update-docs-versions.py"
    /\ versions_exists \in BOOLEAN
    /\ versions_txt = ""
    /\ git_ref = ""
    /\ v_error = ""
    /\ v_runs = 0
    /\ called = <<>>
    /\ ExtractIdle
    /\ UpdateIdle

\* one run of the script: main(sys.argv[1], sys.argv[2])
RunMain ==
    /\ script = "update-docs-versions.py"
    /\ v_runs < MaxRuns
    /\ \E ref \in Refs :
        LET args == update_ver_args(ref)
            res == update_ver(versions_exists, versions_txt, args.dir, args.ver)
            e == RefEntry(ref)
        IN
        /\ git_ref' = ref
        /\ v_runs' = v_runs + 1
        /\ called' = IF e.dir = "" THEN called
                     ELSE (e.dir :> (IF e.dir \in DOMAIN called
                                     THEN Append(called[e.dir], e.ver)
                                     ELSE <<e.ver>>)) @@ called
        /\ IF args.call
           THEN /\ versions_exists' = res.exists
                /\ versions_txt' = res.text
                /\ v_error' = res.raises
           ELSE /\ UNCHANGED <<versions_exists, versions_txt>>
                /\ v_error' = ""
    /\ UNCHANGED <<script, extract_vars, update_vars>>

VersionsNext == RunMain

VersionsSpec == VersionsInit /\ [][VersionsNext]_vars

---------------------------------------------------------------------------
(* update-version.py *)

VERSION_NUMBER_COUNT == 3
VERSION_HEADER_FILE == "include/upa/url_version.h"
VERSION_MACRO_NAME == "UPA_URL_VERSION"
DOC_FILE == "README.md"

UpperLetters == "ABCDEFGHIJKLMNOPQRSTUVWXYZ"
UpperChars == {Char(UpperLetters, k) : k \in 1..26}
Blanks == {" ", "\t"}

\* s.upper() == "Y": upper() maps every character to one or more characters, and
\* only "y" and "Y" to "Y"
upper_is_Y(s) == s \in {"y", "Y"}

\* s[m-1:n] of Python, in the positions of TLA+: never out of range
Slice(s, m, n) ==
    SubSeq(s, IF m < 1 THEN 1 ELSE m, IF n > Len(s) THEN Len(s) ELSE n)

\* the end of the longest run of characters of chars that starts at i (i - 1: none)
RECURSIVE RunEnd(_, _, _)
RunEnd(s, i, chars) ==
    IF i <= Len(s) /\ Char(s, i) \in chars THEN RunEnd(s, i + 1, chars) ELSE i - 1

\* [0-9]+\.[0-9]+\.[0-9]+ (VERSION_REGEX) matched at i: the end of the match, or 0
version_regex_end(s, i) ==
    LET e1 == RunEnd(s, i, DigitChars)
        e2 == RunEnd(s, e1 + 2, DigitChars)
        e3 == RunEnd(s, e2 + 2, DigitChars)
    IN IF /\ e1 >= i
          /\ Slice(s, e1 + 1, e1 + 1) = "."
          /\ e2 >= e1 + 2
          /\ Slice(s, e2 + 1, e2 + 1) = "."
          /\ e3 >= e2 + 2
       THEN e3 ELSE 0

\* VERSION_NUM_REGEX matched at i: the spans of its two groups
version_num_match_at(s, i) ==
    LET def == "#define"
        name == VERSION_MACRO_NAME \o "_"
        b1 == RunEnd(s, i + Len(def), Blanks)
        g1 == b1 + 1 + Len(name)
        e1 == RunEnd(s, g1, UpperChars)
        b2 == RunEnd(s, e1 + 1, Blanks)
        e2 == RunEnd(s, b2 + 1, DigitChars)
    IN [ok |-> /\ Slice(s, i, i + Len(def) - 1) = def
               /\ b1 >= i + Len(def)
               /\ Slice(s, b1 + 1, b1 + Len(name)) = name
               /\ e1 >= g1
               /\ b2 >= e1 + 1
               /\ e2 >= b2 + 1,
        start1 |-> g1, end1 |-> e1, start2 |-> b2 + 1, end2 |-> e2]

\* VERSION_STR_REGEX matched at i: the span of its group
version_str_match_at(s, i) ==
    LET def == "#define"
        b1 == RunEnd(s, i + Len(def), Blanks)
        n1 == b1 + Len(VERSION_MACRO_NAME)
        b2 == RunEnd(s, n1 + 1, Blanks)
        e == version_regex_end(s, b2 + 2)
    IN [ok |-> /\ Slice(s, i, i + Len(def) - 1) = def
               /\ b1 >= i + Len(def)
               /\ Slice(s, b1 + 1, n1) = VERSION_MACRO_NAME
               /\ b2 >= n1 + 1
               /\ Slice(s, b2 + 1, b2 + 1) = "\""
               /\ e > 0
               /\ Slice(s, e + 1, e + 1) = "\"",
        start1 |-> b2 + 2, end1 |-> e]

\* DOC_VERSION_REGEX matched at i: the span of its group
doc_version_match_at(s, i) ==
    [ok |-> Slice(s, i, i) \in {"v", "@"} /\ version_regex_end(s, i + 1) > 0,
     start1 |-> i + 1, end1 |-> version_regex_end(s, i + 1)]

\* re.search: the leftmost match, or a record with ok = FALSE
version_num_search(s) ==
    IF \E i \in 1..Len(s) : version_num_match_at(s, i).ok
    THEN version_num_match_at(s, CHOOSE i \in 1..Len(s) :
             /\ version_num_match_at(s, i).ok
             /\ \A j \in 1..(i - 1) : ~version_num_match_at(s, j).ok)
    ELSE [ok |-> FALSE, start1 |-> 0, end1 |-> 0, start2 |-> 0, end2 |-> 0]

version_str_search(s) ==
    IF \E i \in 1..Len(s) : version_str_match_at(s, i).ok
    THEN version_str_match_at(s, CHOOSE i \in 1..Len(s) :
             /\ version_str_match_at(s, i).ok
             /\ \A j \in 1..(i - 1) : ~version_str_match_at(s, j).ok)
    ELSE [ok |-> FALSE, start1 |-> 0, end1 |-> 0]

doc_version_search(s) ==
    IF \E i \in 1..Len(s) : doc_version_match_at(s, i).ok
    THEN doc_version_match_at(s, CHOOSE i \in 1..Len(s) :
             /\ doc_version_match_at(s, i).ok
             /\ \A j \in 1..(i - 1) : ~doc_version_match_at(s, j).ok)
    ELSE [ok |-> FALSE, start1 |-> 0, end1 |-> 0]

\* what open(path, "r") makes of the text of a file: "\r\n" and "\r" are line ends
\* too, and every line end is read as "\n"
RECURSIVE UniversalNewlines(_)
UniversalNewlines(text) ==
    IF ~Contains(text, "\r") THEN text
    ELSE LET i == Find(text, "\r")
             next == IF i < Len(text) /\ Char(text, i + 1) = "\n" THEN i + 2 ELSE i + 1
         IN SubSeq(text, 1, i - 1) \o "\n"
            \o UniversalNewlines(SubSeq(text, next, Len(text)))

\* the text read, cut after each "\n"
RECURSIVE LinesOf(_)
LinesOf(text) ==
    IF text = "" THEN <<>>
    ELSE IF ~Contains(text, "\n") THEN <<text>>
    ELSE <<SubSeq(text, 1, Find(text, "\n"))>>
         \o LinesOf(SubSeq(text, Find(text, "\n") + 1, Len(text)))

\* the lines "for line_nl in file" yields: each with its line end
FileLines(text) == LinesOf(UniversalNewlines(text))

\* version[key] = val
dict_set(dict, key, val) ==
    IF \E i \in 1..Len(dict) : dict[i][1] = key
    THEN [i \in 1..Len(dict) |-> IF dict[i][1] = key THEN <<key, val>> ELSE dict[i]]
    ELSE Append(dict, <<key, val>>)

\* version[key]
dict_get(dict, key) == dict[CHOOSE i \in 1..Len(dict) : dict[i][1] = key][2]

\* the loop of main() that reads the version numbers of the header
RECURSIVE read_version(_, _)
read_version(lines, dict) ==
    IF lines = <<>> THEN dict
    ELSE LET m == version_num_search(lines[1])
         IN read_version(Tail(lines),
                IF m.ok
                THEN dict_set(dict, SubSeq(lines[1], m.start1, m.end1),
                              DigitsValue(SubSeq(lines[1], m.start2, m.end2)))
                ELSE dict)

\* get_version_str(version)
get_version_str(dict) == Join([i \in 1..Len(dict) |-> Str(dict[i][2])], ".")

\* the loop of main() that updates the dict, with the index n counted from 1:
\* (new_version_keeping_rest: without the branch that sets the later numbers to 0)
new_version_keeping_rest(dict, n) ==
    [i \in 1..Len(dict) |-> IF i = n THEN <<dict[i][1], dict[i][2] + 1>> ELSE dict[i]]
new_version(dict, n) ==
    [i \in 1..Len(dict) |->
        IF i = n THEN <<dict[i][1], dict[i][2] + 1>>
        ELSE IF i > n THEN <<dict[i][1], 0>>
        ELSE dict[i]]

\* a line of the header as update_version_header_file writes it
header_line(line_nl, dict) ==
    LET m == version_num_search(line_nl)
        m2 == version_str_search(line_nl)
    IN IF m.ok
       THEN SubSeq(line_nl, 1, m.start2 - 1)
            \o Str(dict_get(dict, SubSeq(line_nl, m.start1, m.end1)))
            \o SubSeq(line_nl, m.end2 + 1, Len(line_nl))
       ELSE IF m2.ok
       THEN SubSeq(line_nl, 1, m2.start1 - 1) \o get_version_str(dict)
            \o SubSeq(line_nl, m2.end1 + 1, Len(line_nl))
       ELSE line_nl

\* new_text of update_version_header_file
update_version_header_file(text, dict) ==
    Concat([i \in 1..Len(FileLines(text)) |-> header_line(FileLines(text)[i], dict)])

\* new_text of update_documentation, from the lines left and in_cmake
RECURSIVE update_documentation_lines(_, _, _)
update_documentation_lines(lines, in_cmake, dict) ==
    IF lines = <<>> THEN ""
    ELSE LET line_nl == lines[1]
             line == RStrip(line_nl)
             m == doc_version_search(line_nl)
         IN IF ~in_cmake
            THEN line_nl \o update_documentation_lines(Tail(lines), line = "~~~cmake", dict)
            ELSE IF line = "~~~"
            THEN line_nl \o update_documentation_lines(Tail(lines), FALSE, dict)
            ELSE (IF m.ok
                  THEN SubSeq(line_nl, 1, m.start1 - 1) \o get_version_str(dict)
                       \o SubSeq(line_nl, m.end1 + 1, Len(line_nl))
                  ELSE line_nl)
                 \o update_documentation_lines(Tail(lines), TRUE, dict)

update_documentation(text, dict) == update_documentation_lines(FileLines(text), FALSE, dict)

\* the headers main() is run on: three version numbers, or only two
HeaderText(nums) ==
    "#ifndef UPA_URL_VERSION_H\n"
    \o "#define UPA_URL_VERSION_H\n"
    \o "#define UPA_URL_VERSION_MAJOR " \o Str(nums[1]) \o "\n"
    \o "#define UPA_URL_VERSION_MINOR " \o Str(nums[2]) \o "\n"
    \o (IF Len(nums) >= 3 THEN "#define UPA_URL_VERSION_PATCH " \o Str(nums[3]) \o "\n"
        ELSE "")
    \o "#define UPA_URL_VERSION \""
    \o Join([i \in 1..Len(nums) |-> Str(nums[i])], ".") \o "\"\n"
    \o "#endif\n"

\* README.md; its open fence is followed by the space U+1680, and its close fence
\* ends with "\r\n"
ReadmeText(ver) ==
    "# Upa URL v" \o ver \o "\n"
    \o "~~~cmake \n"
    \o "  GIT_TAG v" \o ver \o "\n"
    \o "~~~\r\n"
    \o "See upa@" \o ver \o "\n"

\* the numbers of the headers
Numbers == 0..MaxNumber \cup {9}

\* the answers to the first prompt, each with the index it picks (0: none); the
\* answer for 3 is the digit U+06F3 followed by the space U+1680
IndTable == {
    [text |-> "",   index |-> 0],
    [text |-> "0",  index |-> 0],
    [text |-> "1",  index |-> 1],
    [text |-> " 2", index |-> 2],
    [text |-> "۳ ", index |-> 3],
    [text |-> "4",  index |-> 0],
    [text |-> "-1", index |-> 0],
    [text |-> "x",  index |-> 0]}

\* the answers to the second prompt, each with whether it is Y in either case
AnswerTable == {
    [text |-> "Y",   yes |-> TRUE],
    [text |-> "y",   yes |-> TRUE],
    [text |-> "N",   yes |-> FALSE],
    [text |-> "",    yes |-> FALSE],
    [text |-> "yes", yes |-> FALSE]}

UpdateInit ==
    /\ script = "update-version.py"
    /\ uv_pc = "main"
    /\ numbers0 \in (Numbers \X Numbers \X Numbers) \cup (Numbers \X Numbers)
    /\ header_txt = HeaderText(numbers0)
    /\ readme_txt = ReadmeText("1.0.0")
    /\ version = <<>>
    /\ ind = ""
    /\ answer = ""
    /\ uv_error = ""
    /\ files_written = <<>>
    /\ ExtractIdle
    /\ VersionsIdle

\* main() up to the first prompt
ReadHeader ==
    /\ script = "update-version.py"
    /\ uv_pc = "main"
    /\ version' = read_version(FileLines(header_txt), <<>>)
    /\ uv_pc' = IF Len(version') # VERSION_NUMBER_COUNT THEN "done" ELSE "input_ind"
    /\ UNCHANGED <<header_txt, readme_txt, ind, answer, uv_error, files_written, numbers0>>
    /\ UNCHANGED <<script, extract_vars, versions_vars>>

\* main() from the answer to the first prompt up to the second prompt
InputInd ==
    /\ script = "update-version.py"
    /\ uv_pc = "input_ind"
    /\ \E e \in IndTable :
        /\ ind' = e.text
        /\ IF e.text = "" THEN
              uv_pc' = "done" /\ UNCHANGED <<version, uv_error>>
           ELSE IF PyInt(e.text).raises # "" THEN
              uv_pc' = "done" /\ uv_error' = PyInt(e.text).raises /\ UNCHANGED version
           ELSE IF PyInt(e.text).val < 1 \/ PyInt(e.text).val > VERSION_NUMBER_COUNT THEN
              uv_pc' = "done" /\ UNCHANGED <<version, uv_error>>
           ELSE
              /\ version' = new_version(version, PyInt(e.text).val)
              /\ uv_pc' = "input_confirm"
              /\ UNCHANGED uv_error
    /\ UNCHANGED <<header_txt, readme_txt, answer, files_written, numbers0>>
    /\ UNCHANGED <<script, extract_vars, versions_vars>>

\* main() from the answer to the second prompt
InputConfirm ==
    /\ script = "update-version.py"
    /\ uv_pc = "input_confirm"
    /\ \E e \in AnswerTable :
        /\ answer' = e.text
        /\ IF upper_is_Y(e.text)
           THEN /\ header_txt' = update_version_header_file(header_txt, version)
                /\ readme_txt' = update_documentation(readme_txt, version)
                /\ files_written' = files_written \o <<VERSION_HEADER_FILE, DOC_FILE>>
           ELSE UNCHANGED <<header_txt, readme_txt, files_written>>
    /\ uv_pc' = "done"
    /\ UNCHANGED <<version, ind, uv_error, numbers0>>
    /\ UNCHANGED <<script, extract_vars, versions_vars>>

UpdateNext ==
    \/ ReadHeader
    \/ InputInd
    \/ InputConfirm

UpdateSpec == UpdateInit /\ [][UpdateNext]_vars

---------------------------------------------------------------------------
(* The regions of the documents read, from the lines alone *)

CommonPath == path_join(out_path, "examples.cpp")
ExamplePath(k) == path_join(out_path, "example-" \o Str(k) \o ".cpp")
ExampleFiles == DOMAIN files \ {CommonPath}

BeginsWithInclude(r) == Len(r.lines) >= 1 /\ StartsWith(r.lines[1], "#include")
IsStandalone(r) == BeginsWithInclude(r)
IsFragment(r) == Len(r.lines) >= 1 /\ ~StartsWith(r.lines[1], "#include")
RegionText(r) == Concat(r.lines)
HasEntryPoint(r) == Contains(RegionText(r), "int main(")
IsRunnable(r) == IsStandalone(r) /\ HasEntryPoint(r)
IsSkipped(r) == IsStandalone(r) /\ ~HasEntryPoint(r)
Standalones == SelectSeq(closed, IsRunnable)
Fragments == SelectSeq(closed, IsFragment)
Provenance(r) == "// Example from: " \o r.path \o "\n"
Indented(r) == Concat([j \in 1..Len(r.lines) |-> "    " \o r.lines[j]])
LastClosed == closed[Len(closed)]
ClosesRegion == Len(closed') = Len(closed) + 1

---------------------------------------------------------------------------
(* C1 *)

\* C1 as stated: a region is Standalone (InCpp) when the first line after its open
\* fence begins with "#include" and Fragment (InCppSnipet) otherwise, from that line
\* to the close fence, and every region closed is handled as one of the two.
C1_AsStated ==
    /\ cur.open /\ Len(cur.lines) >= 1 =>
          state = IF BeginsWithInclude(cur) THEN "InCpp" ELSE "InCppSnipet"
    /\ \A i \in 1..Len(closed) :
          closed[i].branch = IF BeginsWithInclude(closed[i]) THEN "InCpp" ELSE "InCppSnipet"

\* C1, amended: a region with at least one line between its fences is Standalone
\* (InCpp) when its first line begins with "#include" and Fragment (InCppSnipet)
\* otherwise, from that line to the close fence, and is handled as that one at its
\* close; a region with no line between its fences is handled as neither.
C1_Classification ==
    /\ cur.open =>
          state = IF Len(cur.lines) = 0 THEN "EnterCpp"
                  ELSE IF BeginsWithInclude(cur) THEN "InCpp" ELSE "InCppSnipet"
    /\ \A i \in 1..Len(closed) :
          closed[i].branch = IF Len(closed[i].lines) = 0 THEN "EnterCpp"
                             ELSE IF BeginsWithInclude(closed[i]) THEN "InCpp"
                             ELSE "InCppSnipet"

\* a Standalone region closed whose second line is no inclusion directive
C1_Witness ==
    \E i \in 1..Len(closed) :
        /\ Len(closed[i].lines) >= 2
        /\ BeginsWithInclude(closed[i])
        /\ ~StartsWith(closed[i].lines[2], "#include")
        /\ closed[i].branch = "InCpp"

---------------------------------------------------------------------------
(* C2 *)

\* the fragments found so far as functions example_1, example_2, ... in the order
\* they were found, after the common header
NumberedFragments ==
    "\n#include \"upa/url.h\"\n#include <iostream>\n#include <string>\n"
    \o Concat([k \in 1..Len(Fragments) |->
                  "\n" \o Provenance(Fragments[k])
                  \o "void example_" \o Str(k) \o "() {\n"
                  \o Indented(Fragments[k]) \o "}\n"])

C2_State ==
    /\ cpp_file_num = Len(Standalones)
    /\ cpp_example_num = Len(Fragments)
    /\ error # "write_example" =>
          /\ ExampleFiles = {ExamplePath(k) : k \in 1..cpp_file_num}
          /\ \A k \in 1..cpp_file_num :
                files[ExamplePath(k)] = Provenance(Standalones[k]) \o RegionText(Standalones[k])
    /\ StartsWith(cpp_examples_text, NumberedFragments)
    /\ pc # "done" /\ error # "write_common" => cpp_examples_text = NumberedFragments

C2_Step ==
    /\ cpp_file_num' \in {cpp_file_num, cpp_file_num + 1}
    /\ cpp_example_num' \in {cpp_example_num, cpp_example_num + 1}
    /\ ClosesRegion /\ IsStandalone(LastClosed') => cpp_example_num' = cpp_example_num
    /\ ClosesRegion /\ IsFragment(LastClosed') => cpp_file_num' = cpp_file_num
    /\ \A p \in ExampleFiles : p \in DOMAIN files' /\ files'[p] = files[p]

\* C2: the standalone files are example-1.cpp, example-2.cpp, ... in the order the
\* regions are found over all documents, no number used twice or reset; the
\* fragments are numbered example_1, example_2, ... likewise; a Standalone close
\* leaves the fragment counter alone and a Fragment close the file counter.
C2_Counters == [] C2_State /\ [][C2_Step]_vars

\* two standalone files, the second from the second document
C2_Witness ==
    /\ cpp_file_num = 2
    /\ ExampleFiles = {ExamplePath(1), ExamplePath(2)}
    /\ StartsWith(files[ExamplePath(1)], "// Example from: " \o DocPath(1))
    /\ StartsWith(files[ExamplePath(2)], "// Example from: " \o DocPath(2))

---------------------------------------------------------------------------
(* C3 *)

\* C3: after output_common_cpp, examples.cpp exists if and only if a Fragment region
\* was found in some document.
C3_CommonFile ==
    pc = "done" =>
        (CommonPath \in DOMAIN files <=> \E i \in 1..Len(closed) : IsFragment(closed[i]))

\* a finished run that found a fragment and a run of regions without one
C3_Witness ==
    /\ pc = "done"
    /\ \E i \in 1..Len(closed) : IsFragment(closed[i])
    /\ \E i \in 1..Len(closed) : ~IsFragment(closed[i])
    /\ CommonPath \in DOMAIN files

---------------------------------------------------------------------------
(* C4 *)

\* C4: with n >= 1 fragments closed, examples.cpp holds exactly the functions
\* example_1 .. example_n in the order the fragments were found, each with its
\* fragment's lines, then a main that calls each once in ascending order and
\* returns 0; and no example-N.cpp exists for a fragment.
C4_Aggregate ==
    /\ Cardinality(ExampleFiles) <= Len(Standalones)
    /\ pc = "done" /\ Len(Fragments) >= 1 =>
        /\ CommonPath \in DOMAIN files
        /\ LET n == Len(Fragments)
               t == files[CommonPath]
               header(k) == "void example_" \o Str(k) \o "() {\n"
               at(k) == CHOOSE i \in Occurrences(t, header(k)) : TRUE
               body(k) == Indented(Fragments[k]) \o "}\n"
               calls == Concat([k \in 1..n |-> "    example_" \o Str(k) \o "();\n"])
               tail == "\nint main() {\n" \o calls \o "    return 0;\n}\n"
           IN
           /\ Cardinality(Occurrences(t, "void example_")) = n
           /\ \A k \in 1..n : Cardinality(Occurrences(t, header(k))) = 1
           /\ \A k \in 1..(n - 1) : at(k) < at(k + 1)
           /\ \A k \in 1..n :
                 /\ at(k) + Len(header(k)) + Len(body(k)) - 1 <= Len(t)
                 /\ SubSeq(t, at(k) + Len(header(k)),
                           at(k) + Len(header(k)) + Len(body(k)) - 1) = body(k)
                 /\ at(k) > Len(Provenance(Fragments[k]))
                 /\ SubSeq(t, at(k) - Len(Provenance(Fragments[k])), at(k) - 1)
                       = Provenance(Fragments[k])
           /\ Cardinality(Occurrences(t, "\nint main() {\n")) = 1
           /\ \A k \in 1..n : Cardinality(Occurrences(t, "example_" \o Str(k) \o "();")) = 1
           /\ Len(t) >= Len(tail)
           /\ SubSeq(t, Len(t) - Len(tail) + 1, Len(t)) = tail

\* a finished run of one document with two regions, both fragments
C4_Witness ==
    /\ pc = "done"
    /\ md_files = <<DocPath(1)>>
    /\ Len(closed) = 2
    /\ Len(Fragments) = 2
    /\ CommonPath \in DOMAIN files

---------------------------------------------------------------------------
(* C5 *)

C5_Step ==
    ClosesRegion /\ IsSkipped(LastClosed') =>
        /\ files' = files
        /\ cpp_file_num' = cpp_file_num
        /\ cpp_example_num' = cpp_example_num
        /\ cpp_examples_text' = cpp_examples_text
        /\ error' = error
        /\ pc' = "scan"
        /\ state' = "Outside"

C5_State ==
    (/\ pc = "done"
     /\ Len(closed) >= 1
     /\ \A i \in 1..Len(closed) : IsSkipped(closed[i]))
    => files = <<>>

\* C5: closing a Standalone region whose text has no "int main(" writes no file,
\* changes neither counter nor the aggregate buffer, raises nothing and returns
\* to Outside; documents whose only regions are such yield no file at all.
C5_SilentSkip == [] C5_State /\ [][C5_Step]_vars

\* a finished run whose only region was a Standalone one without an entry point
C5_Witness ==
    /\ pc = "done"
    /\ Len(closed) = 1
    /\ IsSkipped(closed[1])
    /\ files = <<>>

---------------------------------------------------------------------------
(* C6 *)

\* the errors raised while the documents are scanned
ScanErrors == {"open_md", "read_md", "write_example"}

\* C6 as stated: whatever fails, a document's read or an output file's write, the
\* run stops and examples.cpp is not written.
C6_AsStated ==
    error # "" =>
        /\ pc = "aborted"
        /\ CommonPath \in DOMAIN files => files[CommonPath] = ""

C6_State ==
    /\ error # "" => pc = "aborted"
    /\ error \in ScanErrors => CommonPath \notin DOMAIN files
    /\ error = "write_common" /\ CommonPath \in DOMAIN files =>
          StartsWith(cpp_examples_text, files[CommonPath])

C6_Step ==
    /\ error # "" => vars' = vars
    /\ error = "" /\ error' # "" =>
          \A p \in DOMAIN files : p \in DOMAIN files' /\ files'[p] = files[p]

\* C6, amended: when reading a document or writing an example-N.cpp raises, the run
\* stops there: the files written before stay as they are, nothing more is read or
\* written, and examples.cpp is not written, whatever fragments were recorded. When
\* the write of examples.cpp itself raises, the run stops with the example-N.cpp
\* files as they are and examples.cpp absent or holding a prefix of the aggregate.
C6_Abort == [] C6_State /\ [][C6_Step]_vars

\* a run stopped by an error in its first document, with a fragment recorded and a
\* second document to come
C6_Witness ==
    /\ error \in ScanErrors
    /\ md_idx = 1
    /\ Len(md_files) = 2
    /\ cpp_example_num >= 1

---------------------------------------------------------------------------
(* C8 *)

C8_State ==
    /\ pc = "scan" /\ state # "Outside" =>
          /\ cur.open
          /\ cpp_text = IF state = "InCppSnipet" THEN Indented(cur) ELSE RegionText(cur)

C8_Step ==
    /\ pc = "for_md" /\ pc' = "scan" => state' = "Outside" /\ cpp_text' = ""
    /\ pc = "scan" /\ pc' = "for_md" =>
          UNCHANGED <<cpp_file_num, cpp_example_num, cpp_examples_text, files, closed>>

\* C8: every document starts in Outside with an empty buffer, and the buffer only
\* ever holds lines of the document being read; a region still open at the end of
\* a document yields no file, no fragment and no counter change.
C8_PerDocument == [] C8_State /\ [][C8_Step]_vars

\* the first document ended inside a region, and the only region closed is a
\* fragment of the second document
C8_Witness ==
    /\ pc = "done"
    /\ 1 \in unclosed
    /\ Len(closed) = 1
    /\ closed[1].path = DocPath(2)
    /\ IsFragment(closed[1])
    /\ cpp_example_num = 1

---------------------------------------------------------------------------
(* The lines of versions.txt, read as "<dir>" or "<dir>:<version>" *)

VersionLines == SplitLines(versions_txt)
DirOnLine(line) == IF Contains(line, ":") THEN SubSeq(line, 1, Find(line, ":") - 1) ELSE line
VersionOnLine(line) ==
    IF Contains(line, ":") THEN SubSeq(line, Find(line, ":") + 1, Len(line)) ELSE line

\* <<major, minor, patch>> of a directory name v<major>.<minor>[.<patch>]
NumbersOf(dir) ==
    LET ps == Split(SubSeq(dir, 2, Len(dir)), ".")
    IN <<DigitsValue(ps[1]),
         IF Len(ps) >= 2 THEN DigitsValue(ps[2]) ELSE 0,
         IF Len(ps) >= 3 THEN DigitsValue(ps[3]) ELSE 0>>

\* a >= b, as versions
NotLower(a, b) ==
    \/ a[1] > b[1]
    \/ a[1] = b[1] /\ a[2] > b[2]
    \/ a[1] = b[1] /\ a[2] = b[2] /\ a[3] >= b[3]

---------------------------------------------------------------------------
(* C7 *)

\* C7: computing the sort key fails for no directory name that main() produces,
\* and after update_ver the lines of versions.txt are in order: "main" first, then
\* the releases by descending (major, minor, patch).
C7_AsStated ==
    /\ v_error = ""
    /\ \A i, j \in 1..Len(VersionLines) :
          i < j =>
            \/ DirOnLine(VersionLines[i]) = "main"
            \/ /\ DirOnLine(VersionLines[j]) # "main"
               /\ NotLower(NumbersOf(DirOnLine(VersionLines[i])),
                           NumbersOf(DirOnLine(VersionLines[j])))

---------------------------------------------------------------------------
(* C9 *)

C9_State ==
    \A i \in 1..Len(VersionLines) :
        /\ \A j \in 1..Len(VersionLines) :
              j # i => DirOnLine(VersionLines[j]) # DirOnLine(VersionLines[i])
        /\ DirOnLine(VersionLines[i]) \in DOMAIN called
        /\ VersionOnLine(VersionLines[i])
              = called[DirOnLine(VersionLines[i])][Len(called[DirOnLine(VersionLines[i])])]

C9_Step ==
    /\ v_runs' = v_runs + 1 /\ v_runs >= 1 /\ git_ref' = git_ref =>
          UNCHANGED <<versions_exists, versions_txt>>
    /\ v_runs' = v_runs + 1 /\ RefEntry(git_ref').dir = "" =>
          UNCHANGED <<versions_exists, versions_txt>>

\* C9: from a missing or empty versions.txt, after any runs of the script, no
\* directory is on two lines and the line of a directory holds the version of the
\* last run for that directory; a run with the git ref of the run before it, or
\* with a git ref that names neither the main branch nor a version tag, leaves the
\* file as it is.
C9_OneLinePerDir == [] C9_State /\ [][C9_Step]_vars

\* a tag of v1.2 after another: the one line of v1.2 holds the later version
C9_Witness ==
    /\ "v1.2" \in DOMAIN called
    /\ called["v1.2"] = <<"v1.2.3", "v1.2.4">>
    /\ versions_txt = "main\nv1.2:v1.2.4\n"

---------------------------------------------------------------------------
(* C10 *)

\* the index the first answer picks, and whether the second answer is Y or y
Picked == (CHOOSE e \in IndTable : e.text = ind).index
SaidYes == (CHOOSE e \in AnswerTable : e.text = answer).yes

\* part i increased by 1, the parts after it 0, the parts before it as they were
Bumped(nums, i) ==
    [k \in 1..Len(nums) |-> IF k < i THEN nums[k] ELSE IF k = i THEN nums[k] + 1 ELSE 0]

NumbersText(nums) == Join([k \in 1..Len(nums) |-> Str(nums[k])], ".")

\* README.md with the new version in its cmake block, every line end "\n"
ReadmeWith(ver) ==
    "# Upa URL v1.0.0\n~~~cmake \n  GIT_TAG v" \o ver \o "\n~~~\nSee upa@1.0.0\n"

\* what the run has made of the version and of the two files
C10_State ==
    /\ uv_pc = "input_confirm" \/ (uv_pc = "done" /\ Picked > 0) =>
          /\ Len(numbers0) = VERSION_NUMBER_COUNT
          /\ [k \in 1..Len(version) |-> version[k][2]] = Bumped(numbers0, Picked)
          /\ [k \in 1..Len(version) |-> version[k][1]] = <<"MAJOR", "MINOR", "PATCH">>
    /\ uv_pc # "done" =>
          files_written = <<>> /\ header_txt = HeaderText(numbers0)
    /\ uv_pc = "done" =>
          IF Picked > 0 /\ SaidYes
          THEN /\ files_written = <<VERSION_HEADER_FILE, DOC_FILE>>
               /\ header_txt = HeaderText(Bumped(numbers0, Picked))
               /\ readme_txt = ReadmeWith(NumbersText(Bumped(numbers0, Picked)))
          ELSE /\ files_written = <<>>
               /\ header_txt = HeaderText(numbers0)
               /\ readme_txt = ReadmeText("1.0.0")

\* C10: with three version numbers in the header and an index i in 1..3 picked,
\* the new version has part i increased by 1, the parts after it 0 and the parts
\* before it unchanged; the header and README.md are written only when the
\* second answer is Y or y, and with an empty or out-of-range index, or any other
\* second answer, no file is written.
C10_Bump == script = "update-version.py" => C10_State

\* 1.9.9 with the second number picked and "y" answered: the files hold 1.10.0
C10_Witness ==
    /\ uv_pc = "done"
    /\ numbers0 = <<1, 9, 9>>
    /\ ind = " 2"
    /\ answer = "y"
    /\ header_txt = HeaderText(<<1, 10, 0>>)
    /\ files_written = <<VERSION_HEADER_FILE, DOC_FILE>>

---------------------------------------------------------------------------
(* One run of any of the three scripts *)

Init == ExtractInit \/ VersionsInit \/ UpdateInit

Next == ExtractNext \/ VersionsNext \/ UpdateNext

Spec == Init /\ [][Next]_vars

====
